---- MODULE Spec2Model ----
(***************************************************************************)
(* A model of polyfile's match-tree builder (polyfile.py), of the          *)
(* structural nodes of the schema interpreter (kaitai.py: AST, RawBytes,   *)
(* Integer) and of schema type resolution (kaitai.py: Type.get_type).      *)
(*                                                                         *)
(* Spec     : one scan, Matcher.match() driven by a caller that pulls      *)
(*            elements with next() or closes the generator.                *)
(* SpecAST  : structural nodes built with the constructors and add_child,  *)
(*            read through the offset and length properties.               *)
(* SpecCache: the same operations on the smallest trees, for the caches    *)
(*            of offset and length.                                        *)
(* SpecMatchTree : trees of Match objects and their offset and length.     *)
(* SpecTree : structural nodes put together as the parser does.            *)
(* SpecType : compiled schema scopes and Type.get_type.                    *)
(* SpecParse: Type.parse of one schema on one stream, step by step, and    *)
(*            a read of the tree it returns.                               *)
(* SpecContents : the same parse for schemas without `if` and Switch.      *)
(* SpecIds  : html.assign_ids over a forest of dicts.                      *)
(* SpecRegistry : DEFS over the calls of kaitai.parse and load.            *)
(***************************************************************************)
EXTENDS Integers, Sequences, FiniteSets, TLC

(* ------------------------------------------------------------------ *)
(* Bounds                                                             *)
(* ------------------------------------------------------------------ *)
MaxResults == 3
MaxMagic == 2
MaxSub == 2
\* structural nodes: how many are created, the lengths of the leaves and the relative
\* offsets of Match objects
MaxOffset == 1
MaxNodes == 3
MaxLength == 1
\* how many add_child calls are made
MaxAdds == 2
\* the same two bounds for the small trees of SpecCache
CacheNodes == 2
CacheAdds == 1
\* the same two bounds for the trees of SpecTree
TreeNodes == 3
TreeAdds == 2
\* compiled schema scopes (Type objects) and the imports one scope lists
MaxScopes == 3
MaxImports == 2
\* schema parsing: the attributes of the parsed type's seq, the bytes of the stream and
\* the instances one repeated attribute parses
MaxAttrs == 2
MaxData == 3
MaxInstances == 2
\* the reads of offset and length made on the tree a parse returned
MaxReads == 1
\* the dicts of the forest handed to assign_ids
MaxForest == 4
\* the calls of kaitai.parse and load in one process
MaxCalls == 3

(* ------------------------------------------------------------------ *)
(* Values                                                             *)
(* ------------------------------------------------------------------ *)
\* result.test.mime is None
NoMime == "None"
\* the mimetype strings mime.resolve(context) can produce
Mimes == {"m1", "m2"}

Last(s) == s[Len(s)]
Range(s) == {s[i] : i \in 1..Len(s)}

VARIABLES
    \* ---- Matcher.match / Matcher.handle_mimetype ----
    submatch,           \* Matcher.submatch
    CUSTOM_MATCHERS,    \* the mimetypes with a registered submatcher class
    hasParent,          \* match() was called with parent is not None
    pc,                 \* where the generators stand
    matched_mimetypes,  \* match(): the set of mimetypes seen in this scan
    log,                \* the results the pattern engine has produced so far: <<magic match, mime>>
    magic,              \* the number of magic matches the outer loop has started
    matches,            \* every Match object created, by id: name, match_obj, parent, children
    parentChildren,     \* parent._children of the parent passed to match()
    calls,              \* one record per handle_mimetype call of the scan
    out,                \* the ids delivered to the caller of match(), in order
    term,               \* how the sequence stands for the caller
    streams,            \* every FileStream entered: who entered it, how often it was released
    \* ---- AST / RawBytes / Integer (kaitai.py) and Match (polyfile.py) as trees ----
    nodes,              \* every node created, by id
    pos,                \* stream.pos() of the KaitaiStream the leaves are read from
    lastOp,             \* the last operation on the nodes and how it ended
    \* ---- Type (kaitai.py): the compiled schemas ----
    tparent,            \* Type.parent of every scope, 0 for None (the schemas of DEFS)
    tname,              \* the key of a nested scope in its parent's types
    endian,             \* Type._endianness: "none", "be" or "le"
    imports,            \* Type._imports, as the scopes DEFS holds for the uids
    lastLookup,         \* the last get_type call and its result
    \* ---- Type.parse / Attribute.parse (kaitai.py) ----
    seq,                \* Type.seq of the parsed type: its attributes
    data,               \* the bytes of the KaitaiStream
    frame,              \* where Type.parse and Attribute.parse stand
    \* ---- assign_ids (html.py) ----
    roots,              \* the argument matches: the dicts of the top level, in order
    kids,               \* m['children'] of every dict
    uid,                \* m['uid'] of every dict, None while the key is missing
    stack,              \* the local stack
    counter,            \* the local i
    visits,             \* the dicts popped so far, in order
    idsAt,              \* where assign_ids stands
    \* ---- DEFS, parse and load (kaitai.py) ----
    ksy,                \* the uids of the *.ksy files of KSY_DIR
    Defs,               \* DEFS: uid -> the Type object registered, named by the load that made it
    loads,              \* how often load() has run
    lastParse           \* the last call of parse(typename, ...) and how it went

varsM == <<submatch, CUSTOM_MATCHERS, hasParent, pc, matched_mimetypes, log, magic,
           matches, parentChildren, calls, out, term, streams>>

varsA == <<nodes, pos, lastOp>>

varsT == <<tparent, tname, endian, imports, lastLookup>>

varsP == <<seq, data, frame>>

\* the variables of the subsystems added after the first three
varsI == <<roots, kids, uid, stack, counter, visits, idsAt>>

varsR == <<ksy, Defs, loads, lastParse>>

varsO == <<varsP, varsI, varsR>>

vars == <<varsM, varsA, varsT, varsO>>

(* ------------------------------------------------------------------ *)
(* Match objects                                                      *)
(* ------------------------------------------------------------------ *)
\* The id of the parent passed to match(); it is not one of `matches`.
PARENT == 0
NoMatch == -1

\* Match.__init__: the new object, appended to parent._children when parent is not None.
\* parent is PARENT (the caller's parent), NoMatch (None) or the id of a Match.
NewId == Len(matches) + 1

MatchInit(name, match_obj, parent) ==
    /\ matches' = [i \in 1..NewId |->
                     IF i = NewId
                     THEN [name |-> name, match |-> match_obj, parent |-> parent,
                           children |-> <<>>]
                     ELSE IF i = parent
                          THEN [matches[i] EXCEPT !.children = Append(@, NewId)]
                          ELSE matches[i]]
    /\ parentChildren' = IF parent = PARENT THEN Append(parentChildren, NewId)
                         ELSE parentChildren

\* the parent argument match() hands to handle_mimetype
ParentArg == IF hasParent THEN PARENT ELSE NoMatch

(* ------------------------------------------------------------------ *)
(* FileStream scopes (the with statements)                            *)
(* ------------------------------------------------------------------ *)
MAIN == 1

Acquire(owner) == Append(streams, [owner |-> owner, rel |-> 0])

\* __exit__ of the with block of handle_mimetype
ReleaseSub(ss, c) == [ss EXCEPT ![c.stream].rel = @ + 1]

\* __exit__ of the with block of match()
ReleaseMain(ss) == [ss EXCEPT ![MAIN].rel = @ + 1]

(* ------------------------------------------------------------------ *)
(* handle_mimetype calls                                              *)
(* ------------------------------------------------------------------ *)
NewCall(mime, kind) ==
    [mime |-> mime, kind |-> kind, cand |-> 0, stream |-> 0, has_first |-> FALSE,
     produced |-> <<>>, delivered |-> <<>>, signal |-> "none", at |-> "none",
     status |-> "active"]

Cur == calls[Len(calls)]

SetCur(c) == calls' = [calls EXCEPT ![Len(calls)] = c]

Errors == {"InvalidMatch", "OtherError"}

(* ------------------------------------------------------------------ *)
(* Init                                                               *)
(* ------------------------------------------------------------------ *)
InitM ==
    /\ submatch \in BOOLEAN
    /\ CUSTOM_MATCHERS \in SUBSET Mimes
    /\ hasParent \in BOOLEAN
    /\ pc = "new"
    /\ matched_mimetypes = {}
    /\ log = <<>>
    /\ magic = 0
    /\ matches = <<>>
    /\ parentChildren = <<>>
    /\ calls = <<>>
    /\ out = <<>>
    /\ term = "running"
    /\ streams = <<>>

(* ------------------------------------------------------------------ *)
(* The caller of match()                                              *)
(* ------------------------------------------------------------------ *)
\* The first next(): match() runs to `with FileStream(file_stream) as f` and into its loops.
CallerStart ==
    /\ pc = "new"
    /\ term = "running"
    /\ streams' = Acquire("match")
    /\ matched_mimetypes' = {}
    /\ pc' = "loop"
    /\ UNCHANGED <<submatch, CUSTOM_MATCHERS, hasParent, log, magic, matches,
                   parentChildren, calls, out, term>>

\* next() on a generator suspended at a yield of handle_mimetype.
CallerNext ==
    /\ term = "running"
    /\ \/ /\ pc = "yieldedLeaf"
          /\ SetCur([Cur EXCEPT !.status = "returned"])
          /\ pc' = "loop"
          /\ UNCHANGED <<out, streams>>
       \/ /\ pc = "yieldedM"
          /\ IF Cur.has_first
             THEN /\ SetCur([Cur EXCEPT !.delivered = Append(@, Cur.produced[1])])
                  /\ out' = Append(out, Cur.produced[1])
                  /\ pc' = "yieldedSub"
                  /\ UNCHANGED streams
             ELSE /\ SetCur([Cur EXCEPT !.status = "returned"])
                  /\ streams' = ReleaseSub(streams, Cur)
                  /\ pc' = "loop"
                  /\ UNCHANGED out
       \/ /\ pc = "yieldedSub"
          /\ pc' = "rest"
          /\ UNCHANGED <<calls, out, streams>>
    /\ UNCHANGED <<submatch, CUSTOM_MATCHERS, hasParent, matched_mimetypes, log, magic,
                   matches, parentChildren, term>>

\* close() on the generator: GeneratorExit is raised at the yield where it is suspended
\* and unwinds the with blocks that are open there.
CallerClose ==
    /\ term = "running"
    /\ pc \in {"new", "yieldedLeaf", "yieldedM", "yieldedSub"}
    /\ term' = "closed"
    /\ pc' = "end"
    /\ IF pc = "new"
       THEN UNCHANGED <<calls, streams>>
       ELSE /\ SetCur([Cur EXCEPT !.status = "closed"])
            /\ streams' = IF pc = "yieldedLeaf" THEN ReleaseMain(streams)
                          ELSE ReleaseMain(ReleaseSub(streams, Cur))
    /\ UNCHANGED <<submatch, CUSTOM_MATCHERS, hasParent, matched_mimetypes, log, magic,
                   matches, parentChildren, out>>

(* ------------------------------------------------------------------ *)
(* match(): the loops over the pattern engine's results               *)
(* ------------------------------------------------------------------ *)
\* Both loops are exhausted: the with block of match() exits and the generator returns.
EngineExhausted ==
    /\ pc = "loop"
    /\ streams' = ReleaseMain(streams)
    /\ term' = "stop"
    /\ pc' = "end"
    /\ UNCHANGED <<submatch, CUSTOM_MATCHERS, hasParent, matched_mimetypes, log, magic,
                   matches, parentChildren, calls, out>>

\* the same loop body without matched_mimetypes.add(mimetype)
EngineResult_NoAdd ==
    /\ pc = "loop"
    /\ Len(log) < MaxResults
    /\ \E nm \in {magic, magic + 1}, mime \in Mimes \cup {NoMime} :
         /\ nm >= 1
         /\ nm <= MaxMagic
         /\ magic' = nm
         /\ log' = Append(log, <<nm, mime>>)
         /\ UNCHANGED matched_mimetypes
         /\ IF mime = NoMime \/ mime \in matched_mimetypes
            THEN UNCHANGED <<matches, parentChildren, calls, out, pc>>
            ELSE IF submatch /\ mime \in CUSTOM_MATCHERS
                 THEN /\ calls' = Append(calls, NewCall(mime, "custom"))
                      /\ pc' = "construct"
                      /\ UNCHANGED <<matches, parentChildren, out>>
                 ELSE /\ MatchInit(mime, nm, ParentArg)
                      /\ calls' = Append(calls,
                            [NewCall(mime, "leaf") EXCEPT !.cand = NewId,
                                                          !.delivered = <<NewId>>])
                      /\ out' = Append(out, NewId)
                      /\ pc' = "yieldedLeaf"
    /\ UNCHANGED <<submatch, CUSTOM_MATCHERS, hasParent, term, streams>>

\* the same loop over list(magic_match): the next result is computed before this one
\* is handled
EngineResult_ReadsAhead ==
    /\ pc = "loop"
    /\ Len(log) < MaxResults
    /\ \E nm \in {magic, magic + 1}, mime \in Mimes \cup {NoMime} :
         /\ nm >= 1
         /\ nm <= MaxMagic
         /\ magic' = nm
         /\ \E ahead \in Mimes \cup {NoMime} :
                log' = Append(Append(log, <<nm, mime>>), <<nm, ahead>>)
         /\ IF mime = NoMime \/ mime \in matched_mimetypes
            THEN UNCHANGED <<matched_mimetypes, matches, parentChildren, calls, out, pc>>
            ELSE /\ matched_mimetypes' = matched_mimetypes \cup {mime}
                 /\ IF submatch /\ mime \in CUSTOM_MATCHERS
                    THEN /\ calls' = Append(calls, NewCall(mime, "custom"))
                         /\ pc' = "construct"
                         /\ UNCHANGED <<matches, parentChildren, out>>
                    ELSE /\ MatchInit(mime, nm, ParentArg)
                         /\ calls' = Append(calls,
                               [NewCall(mime, "leaf") EXCEPT !.cand = NewId,
                                                             !.delivered = <<NewId>>])
                         /\ out' = Append(out, NewId)
                         /\ pc' = "yieldedLeaf"
    /\ UNCHANGED <<submatch, CUSTOM_MATCHERS, hasParent, term, streams>>

\* the same loop body with the mimetype marked as seen only where its Match is yielded at
\* once: a mimetype with a registered submatcher is not marked before its candidate is
\* probed
EngineResult_MarksOnYield ==
    /\ pc = "loop"
    /\ Len(log) < MaxResults
    /\ \E nm \in {magic, magic + 1}, mime \in Mimes \cup {NoMime} :
         /\ nm >= 1
         /\ nm <= MaxMagic
         /\ magic' = nm
         /\ log' = Append(log, <<nm, mime>>)
         /\ IF mime = NoMime \/ mime \in matched_mimetypes
            THEN UNCHANGED <<matched_mimetypes, matches, parentChildren, calls, out, pc>>
            ELSE IF submatch /\ mime \in CUSTOM_MATCHERS
                 THEN /\ calls' = Append(calls, NewCall(mime, "custom"))
                      /\ pc' = "construct"
                      /\ UNCHANGED <<matched_mimetypes, matches, parentChildren, out>>
                 ELSE /\ matched_mimetypes' = matched_mimetypes \cup {mime}
                      /\ MatchInit(mime, nm, ParentArg)
                      /\ calls' = Append(calls,
                            [NewCall(mime, "leaf") EXCEPT !.cand = NewId,
                                                          !.delivered = <<NewId>>])
                      /\ out' = Append(out, NewId)
                      /\ pc' = "yieldedLeaf"
    /\ UNCHANGED <<submatch, CUSTOM_MATCHERS, hasParent, term, streams>>

\* One iteration of the inner loop, on the next result of the current magic match (nm =
\* magic) or of a new one (nm = magic + 1).
EngineResult ==
    /\ pc = "loop"
    /\ Len(log) < MaxResults
    /\ \E nm \in {magic, magic + 1}, mime \in Mimes \cup {NoMime} :
         /\ nm >= 1
         /\ nm <= MaxMagic
         /\ magic' = nm
         /\ log' = Append(log, <<nm, mime>>)
         /\ IF mime = NoMime \/ mime \in matched_mimetypes
            THEN UNCHANGED <<matched_mimetypes, matches, parentChildren, calls, out, pc>>
            ELSE /\ matched_mimetypes' = matched_mimetypes \cup {mime}
                 /\ IF submatch /\ mime \in CUSTOM_MATCHERS
                    THEN /\ calls' = Append(calls, NewCall(mime, "custom"))
                         /\ pc' = "construct"
                         /\ UNCHANGED <<matches, parentChildren, out>>
                    ELSE /\ MatchInit(mime, nm, ParentArg)
                         /\ calls' = Append(calls,
                               [NewCall(mime, "leaf") EXCEPT !.cand = NewId,
                                                             !.delivered = <<NewId>>])
                         /\ out' = Append(out, NewId)
                         /\ pc' = "yieldedLeaf"
    /\ UNCHANGED <<submatch, CUSTOM_MATCHERS, hasParent, term, streams>>

(* ------------------------------------------------------------------ *)
(* handle_mimetype with a registered submatcher                       *)
(* ------------------------------------------------------------------ *)
\* a handler that catches nothing: the try without its except clause
Caught_Nothing(e) == FALSE

\* except InvalidMatch: pass
Caught(e) == e = "InvalidMatch"

\* handle_mimetype returns: match() goes on with its loops.
Return(c, ss) ==
    /\ SetCur([c EXCEPT !.status = "returned"])
    /\ streams' = ss
    /\ pc' = "loop"
    /\ UNCHANGED term

\* An exception leaves handle_mimetype: it passes through the yield from of match(),
\* whose with block exits, and reaches the caller of next().
Propagate(c, e, ss) ==
    /\ SetCur([c EXCEPT !.status = "raised"])
    /\ streams' = ReleaseMain(ss)
    /\ term' = e
    /\ pc' = "end"

\* the same without the with block: the stream is closed only at the end of the block
RaisedInTry_NoRelease(c, e, ss) ==
    IF Caught(e) THEN Return(c, ss)
    ELSE Propagate(c, e, ss)

\* An exception raised inside `with FileStream(...) as fs`, which is inside the try.
RaisedInTry(c, e, ss) ==
    IF Caught(e) THEN Return(c, ReleaseSub(ss, c))
    ELSE Propagate(c, e, ReleaseSub(ss, c))

\* m = CUSTOM_MATCHERS[mimetype](mimetype, match_obj, offset, length=..., parent=parent,
\* matcher=self). The class's __init__ may raise, before or after Match.__init__ ran.
Construct ==
    /\ pc = "construct"
    /\ \/ /\ MatchInit(Cur.mime, magic, ParentArg)
          /\ SetCur([Cur EXCEPT !.cand = NewId])
          /\ pc' = "open"
          /\ UNCHANGED <<streams, term>>
       \/ \E e \in Errors :
            /\ UNCHANGED <<matches, parentChildren>>
            /\ Propagate([Cur EXCEPT !.signal = e, !.at = "ctor"], e, streams)
       \/ \E e \in Errors :
            /\ MatchInit(Cur.mime, magic, ParentArg)
            /\ Propagate([Cur EXCEPT !.cand = NewId, !.signal = e, !.at = "ctor"], e, streams)
    /\ UNCHANGED <<submatch, CUSTOM_MATCHERS, hasParent, matched_mimetypes, log, magic, out>>

\* with FileStream(file_stream, start=offset, length=length) as fs:
\*     submatch_iter = m.submatch(fs)
OpenSubmatch ==
    /\ pc = "open"
    /\ LET c == [Cur EXCEPT !.stream = Len(streams) + 1]
           ss == Acquire("handle")
       IN  \/ /\ SetCur(c)
              /\ streams' = ss
              /\ pc' = "peek"
              /\ UNCHANGED term
           \/ \E e \in Errors : RaisedInTry([c EXCEPT !.signal = e, !.at = "call"], e, ss)
    /\ UNCHANGED <<submatch, CUSTOM_MATCHERS, hasParent, matched_mimetypes, log, magic,
                   matches, parentChildren, out>>

\* yield m
YieldM(c) ==
    /\ SetCur([c EXCEPT !.delivered = <<c.cand>>])
    /\ out' = Append(out, c.cand)
    /\ pc' = "yieldedM"
    /\ UNCHANGED <<streams, term>>

\* the candidate yielded before its submatcher was tried: yield m; yield from m.submatch(fs)
PeekFirst_YieldBeforeProbe ==
    /\ pc = "peek"
    /\ \/ /\ MatchInit("sub", Cur.cand, Cur.cand)
          /\ YieldM([Cur EXCEPT !.has_first = TRUE, !.produced = <<NewId>>])
       \/ /\ UNCHANGED <<matches, parentChildren>>
          /\ YieldM([Cur EXCEPT !.has_first = FALSE, !.signal = "StopIteration",
                                !.at = "next"])
       \/ /\ UNCHANGED <<matches, parentChildren>>
          /\ out' = Append(out, Cur.cand)
          /\ \E e \in Errors :
               RaisedInTry([Cur EXCEPT !.delivered = <<Cur.cand>>, !.signal = e,
                                       !.at = "next"], e, streams)
    /\ UNCHANGED <<submatch, CUSTOM_MATCHERS, hasParent, matched_mimetypes, log, magic>>

\* the same with a candidate whose submatcher produces nothing dropped: on StopIteration
\* the call returns without `yield m`
PeekFirst_DropsEmpty ==
    /\ pc = "peek"
    /\ \/ /\ MatchInit("sub", Cur.cand, Cur.cand)
          /\ YieldM([Cur EXCEPT !.has_first = TRUE, !.produced = <<NewId>>])
       \/ /\ UNCHANGED <<matches, parentChildren, out>>
          /\ Return([Cur EXCEPT !.has_first = FALSE, !.signal = "StopIteration",
                                !.at = "next"], ReleaseSub(streams, Cur))
       \/ /\ UNCHANGED <<matches, parentChildren, out>>
          /\ \E e \in Errors : RaisedInTry([Cur EXCEPT !.signal = e, !.at = "next"], e, streams)
    /\ UNCHANGED <<submatch, CUSTOM_MATCHERS, hasParent, matched_mimetypes, log, magic>>

\* try: first_submatch = next(submatch_iter); has_first = True
\* except StopIteration: has_first = False
\* yield m
PeekFirst ==
    /\ pc = "peek"
    /\ \/ /\ MatchInit("sub", Cur.cand, Cur.cand)
          /\ YieldM([Cur EXCEPT !.has_first = TRUE, !.produced = <<NewId>>])
       \/ /\ UNCHANGED <<matches, parentChildren>>
          /\ YieldM([Cur EXCEPT !.has_first = FALSE, !.signal = "StopIteration",
                                !.at = "next"])
       \/ /\ UNCHANGED <<matches, parentChildren, out>>
          /\ \E e \in Errors : RaisedInTry([Cur EXCEPT !.signal = e, !.at = "next"], e, streams)
    /\ UNCHANGED <<submatch, CUSTOM_MATCHERS, hasParent, matched_mimetypes, log, magic>>

\* yield from submatch_iter: the next element of the submatcher's sequence
Rest ==
    /\ pc = "rest"
    /\ \/ /\ Len(Cur.produced) < MaxSub
          /\ MatchInit("sub", Cur.cand, Cur.cand)
          /\ SetCur([Cur EXCEPT !.produced = Append(@, NewId),
                                !.delivered = Append(@, NewId)])
          /\ out' = Append(out, NewId)
          /\ pc' = "yieldedSub"
          /\ UNCHANGED <<streams, term>>
       \/ /\ UNCHANGED <<matches, parentChildren, out>>
          /\ Return([Cur EXCEPT !.signal = "StopIteration", !.at = "next"],
                    ReleaseSub(streams, Cur))
       \/ /\ UNCHANGED <<matches, parentChildren, out>>
          /\ \E e \in Errors : RaisedInTry([Cur EXCEPT !.signal = e, !.at = "next"], e, streams)
    /\ UNCHANGED <<submatch, CUSTOM_MATCHERS, hasParent, matched_mimetypes, log, magic>>

(* ------------------------------------------------------------------ *)
(* Structural nodes                                                   *)
(* ------------------------------------------------------------------ *)
\* None, and a value that is not None
None == <<>>
Some(v) == <<v>>
Val(o) == o[1]

\* AST.__init__(obj): parent None, no children, _offset and _length None.
\* cls is "AST" for AST and its subclasses RawBytes and Integer, whose constructors set
\* _offset and _length (explicit), and "Match" for polyfile.Match.
\* pendOff and pendLen are not fields of the object: they hold what _offset and _length
\* were when add_child last returned, until the attribute is next read, by the program
\* or by the offset or length property of another node.
ASTInit ==
    [cls |-> "AST", explicit |-> FALSE, parent |-> 0, children |-> <<>>, off |-> None, len |-> None,
     pendOff |-> None, pendLen |-> None]

\* RawBytes.__init__(raw_bytes, offset): _offset = offset, _length = len(raw_bytes)
RawBytesInit(offset, length) ==
    [ASTInit EXCEPT !.explicit = TRUE, !.off = Some(offset), !.len = Some(length)]

\* Integer.__init__(value, offset, length): _offset = offset, _length = length
IntegerInit(offset, length) ==
    [ASTInit EXCEPT !.explicit = TRUE, !.off = Some(offset), !.len = Some(length)]

\* Match.__init__(name, match_obj, relative_offset, length, parent): _offset is the
\* relative offset, _length is the length given or None.
MatchNodeInit(relative_offset, length, parent) ==
    [ASTInit EXCEPT !.cls = "Match", !.explicit = length # None, !.parent = parent, !.off = Some(relative_offset),
                    !.len = length]

\* the deepest recursion a read of offset or length can make and still end: every frame
\* is one attribute of one node, and none is entered twice
Fuel == 2 * Len(nodes) + 2

Result(res, v, ns) == [res |-> res, v |-> v, ns |-> ns]

RECURSIVE ReadOffset(_, _, _), ReadLength(_, _, _), MaxEnd(_, _, _, _)

\* AST.offset (memoized) and Match.offset (computed on every read) of node n in the
\* nodes ns. A recursion deeper than any terminating one ends in a RecursionError.
ReadOffset(ns, n, fuel) ==
    IF fuel = 0 THEN Result("RecursionError", 0, ns)
    ELSE IF ns[n].cls = "Match"
    THEN IF ns[n].parent # 0
         THEN LET r == ReadOffset(ns, ns[n].parent, fuel - 1)
              IN  IF r.res # "ok" THEN r
                  ELSE Result("ok", r.v + Val(ns[n].off), r.ns)
         ELSE Result("ok", Val(ns[n].off), ns)
    ELSE IF ns[n].off # None THEN Result("ok", Val(ns[n].off), ns)
    ELSE IF ns[n].children # <<>>
    THEN LET r == ReadOffset(ns, ns[n].children[1], fuel - 1)
         IN  IF r.res # "ok" THEN r
             ELSE Result("ok", r.v, [r.ns EXCEPT ![n].off = Some(r.v)])
    ELSE IF ns[n].parent # 0
    THEN LET r1 == ReadOffset(ns, ns[n].parent, fuel - 1)
         IN  IF r1.res # "ok" THEN r1
             ELSE LET r2 == ReadLength(r1.ns, ns[n].parent, fuel - 1)
                  IN  IF r2.res # "ok" THEN r2
                      ELSE Result("ok", r1.v + r2.v,
                                  [r2.ns EXCEPT ![n].off = Some(r1.v + r2.v)])
    ELSE Result("ok", 0, [ns EXCEPT ![n].off = Some(0)])

\* max(c.offset + c.length for c in self._children) over the children from index i on
\* (None when there is none)
MaxEnd(ns, n, i, fuel) ==
    IF i > Len(ns[n].children) THEN Result("ok", None, ns)
    ELSE LET c == ns[n].children[i]
             r1 == ReadOffset(ns, c, fuel - 1)
         IN  IF r1.res # "ok" THEN r1
             ELSE LET r2 == ReadLength(ns, c, fuel - 1)
                  IN  IF r2.res # "ok" THEN r2
                      ELSE LET rest == MaxEnd(ns, n, i + 1, fuel)
                               end == r1.v + r2.v
                           IN  IF rest.res # "ok" THEN rest
                               ELSE IF rest.v = None \/ Val(rest.v) < end
                                    THEN Result("ok", Some(end), ns)
                                    ELSE rest

\* AST.length (memoized) and Match.length (computed on every read)
ReadLength(ns, n, fuel) ==
    IF fuel = 0 THEN Result("RecursionError", 0, ns)
    ELSE IF ns[n].cls = "Match"
    THEN IF ns[n].len # None THEN Result("ok", Val(ns[n].len), ns)
         ELSE LET m == MaxEnd(ns, n, 1, fuel)
              IN  IF m.res # "ok" THEN m
                  ELSE IF m.v = None THEN Result("ValueError", 0, ns)
                  ELSE LET r == ReadOffset(ns, n, fuel - 1)
                       IN  IF r.res # "ok" THEN r
                           ELSE Result("ok", Val(m.v) - r.v, ns)
    ELSE IF ns[n].len # None THEN Result("ok", Val(ns[n].len), ns)
    ELSE IF ns[n].children # <<>>
    THEN LET c == ns[n].children[Len(ns[n].children)]
             r1 == ReadOffset(ns, c, fuel - 1)
         IN  IF r1.res # "ok" THEN r1
             ELSE LET r2 == ReadLength(r1.ns, c, fuel - 1)
                  IN  IF r2.res # "ok" THEN r2
                      ELSE LET r3 == ReadOffset(r2.ns, n, fuel - 1)
                           IN  IF r3.res # "ok" THEN r3
                               ELSE Result("ok", r1.v + r2.v - r3.v,
                                      [r3.ns EXCEPT ![n].len = Some(r1.v + r2.v - r3.v)])
    ELSE Result("ok", 0, [ns EXCEPT ![n].len = Some(0)])

Op(op, n, res, v, first, old) ==
    [op |-> op, node |-> n, res |-> res, v |-> v, first |-> first, old |-> old]

InitA ==
    /\ nodes = <<>>
    /\ pos = 0
    /\ lastOp = Op("init", 0, "ok", 0, FALSE, None)

Offsets == 0..MaxOffset
Lengths == 1..MaxLength
IsMatch(n) == nodes[n].cls = "Match"

New(node) ==
    /\ nodes' = Append(nodes, node)
    /\ lastOp' = Op("new", Len(nodes) + 1, "ok", 0, FALSE, None)

\* ast = AST(self), as in Type.parse and Attribute.parse
NewAST == New(ASTInit) /\ UNCHANGED pos

\* ByteMatch.parse: offset = stream.pos(); c = stream.read_bytes(len(self.contents));
\* return RawBytes(c, offset)
NewRawBytes ==
    \E l \in Lengths : New(RawBytesInit(pos, l)) /\ pos' = pos + l

\* IntegerTypes.parse: offset = stream.pos(); b = self.reader(stream);
\* return Integer(b, offset, self.bitwidth // 8)
NewInteger ==
    \E l \in Lengths : New(IntegerInit(pos, l)) /\ pos' = pos + l

\* Match(name, match_obj, relative_offset, length, parent, matcher)
NewMatch ==
    /\ \E o \in Offsets, l \in {None} \cup {Some(x) : x \in Lengths},
          p \in {0} \cup {n \in DOMAIN nodes : IsMatch(n)} :
         /\ nodes' = [i \in 1..(Len(nodes) + 1) |->
                        IF i = Len(nodes) + 1 THEN MatchNodeInit(o, l, p)
                        ELSE IF i = p
                             THEN [nodes[i] EXCEPT !.children = Append(@, Len(nodes) + 1)]
                             ELSE nodes[i]]
         /\ lastOp' = Op("new", Len(nodes) + 1, "ok", 0, FALSE, None)
         /\ UNCHANGED pos

RECURSIVE Adds(_, _)
\* the number of add_child calls made so far: the children of the first n nodes
Adds(ns, n) == IF n = 0 THEN 0 ELSE Adds(ns, n - 1) + Len(ns[n].children)

\* add_child without the two assignments of None
AddChildTo_KeepsLength(ns, p, c) ==
    [ns EXCEPT ![p].children = Append(@, c), ![c].parent = p,
               ![p].off = None,
               ![p].pendOff = Some(ns[p].off), ![p].pendLen = Some(ns[p].len)]

\* AST.add_child(child) when it runs to its end
AddChildTo(ns, p, c) ==
    [ns EXCEPT ![p].children = Append(@, c), ![c].parent = p,
               ![p].off = None, ![p].len = None,
               ![p].pendOff = Some(ns[p].off), ![p].pendLen = Some(ns[p].len)]

\* AST.add_child(child). With child.parent set, breakpoint() is reached after the append:
\* the debugger either lets the call go on or ends it with BdbQuit.
AddChild ==
    \E p, c \in {n \in DOMAIN nodes : ~IsMatch(n)} :
        /\ \/ /\ nodes' = AddChildTo(nodes, p, c)
              /\ lastOp' = Op("add_child", p, "ok", c, FALSE, None)
           \/ /\ nodes[c].parent # 0
              /\ nodes' = [nodes EXCEPT ![p].children = Append(@, c)]
              /\ lastOp' = Op("add_child", p, "BdbQuit", c, FALSE, None)
        /\ UNCHANGED pos

\* the nodes after a read of attr ("offset" or "length") of node n that left them as ns:
\* the read of n and the reads that filled a cache are no longer pending
AfterRead(ns, n, attr) ==
    [m \in DOMAIN ns |->
        [ns[m] EXCEPT
            !.pendOff = IF (m = n /\ attr = "offset") \/ (nodes[m].off = None /\ ns[m].off # None)
                        THEN None ELSE @,
            !.pendLen = IF (m = n /\ attr = "length") \/ (nodes[m].len = None /\ ns[m].len # None)
                        THEN None ELSE @]]

RECURSIVE Root(_, _)
\* the node reached from n along parent
Root(ns, n) == IF ns[n].parent = 0 THEN n ELSE Root(ns, ns[n].parent)

\* AST.add_child(child) the way Attribute.parse and Type.parse call it: the child was
\* just parsed and has no parent, and self is an AST the parser is filling, never a
\* leaf and never a node of the child's own tree
AddParsedChild ==
    \E p, c \in {n \in DOMAIN nodes : ~IsMatch(n)} :
        /\ nodes[c].parent = 0
        /\ ~nodes[p].explicit
        /\ Root(nodes, p) # c
        /\ nodes' = AddChildTo(nodes, p, c)
        /\ lastOp' = Op("add_child", p, "ok", c, FALSE, None)
        /\ UNCHANGED pos

\* a read of node.offset
Offset ==
    \E n \in DOMAIN nodes :
        LET r == ReadOffset(nodes, n, Fuel)
        IN  /\ nodes' = AfterRead(r.ns, n, "offset")
            /\ lastOp' = Op("offset", n, r.res, r.v, nodes[n].pendOff # None,
                            IF nodes[n].pendOff # None THEN Val(nodes[n].pendOff) ELSE None)
            /\ UNCHANGED pos

\* a read of node.length
Length ==
    \E n \in DOMAIN nodes :
        LET r == ReadLength(nodes, n, Fuel)
        IN  /\ nodes' = AfterRead(r.ns, n, "length")
            /\ lastOp' = Op("length", n, r.res, r.v, nodes[n].pendLen # None,
                            IF nodes[n].pendLen # None THEN Val(nodes[n].pendLen) ELSE None)
            /\ UNCHANGED pos

(* ------------------------------------------------------------------ *)
(* Schema scopes and type resolution                                  *)
(* ------------------------------------------------------------------ *)
Scopes == 1..MaxScopes

\* the type names looked up: a primitive's full name, a primitive's name without its
\* endianness, and a name no primitive has
TypeNames == {"u1", "u4", "t"}

\* names of PRIMITIVE_TYPES_BY_NAME (the typename of every IntegerTypes and FloatTypes
\* member), as far as the names above can reach them
PRIMITIVE_TYPES_BY_NAME == {"u1", "u4le", "u4be"}

\* type_name + endianness.value
Plus(type_name, e) ==
    CASE type_name = "u4" /\ e = "be" -> "u4be"
      [] type_name = "u4" /\ e = "le" -> "u4le"
      [] type_name = "u1" /\ e = "be" -> "u1be"
      [] type_name = "u1" /\ e = "le" -> "u1le"
      [] type_name = "t" /\ e = "be" -> "tbe"
      [] OTHER -> "tle"

Found(kind, v) == [kind |-> kind, v |-> v]
KeyError == [kind |-> "KeyError", v |-> "KeyError"]

\* get_primitive_type(type_name, endianness)
get_primitive_type(type_name, endianness) ==
    IF type_name \in PRIMITIVE_TYPES_BY_NAME THEN Found("primitive", type_name)
    ELSE IF endianness # "none" /\ Plus(type_name, endianness) \in PRIMITIVE_TYPES_BY_NAME
    THEN Found("primitive", Plus(type_name, endianness))
    ELSE KeyError

RECURSIVE Endianness(_)
\* Type.endianness
Endianness(s) ==
    IF endian[s] # "none" THEN endian[s]
    ELSE IF tparent[s] # 0 THEN Endianness(tparent[s])
    ELSE "none"

\* self.types: the nested scopes of s, by name
Types(s) == {c \in Scopes : tparent[c] = s}
Nested(s, type_name) == CHOOSE c \in Types(s) : tname[c] = type_name
HasNested(s, type_name) == \E c \in Types(s) : tname[c] = type_name

RECURSIVE get_type(_, _), TryImports(_, _, _)

\* for t in self.imports: try: return t.get_type(type_name) except KeyError: pass
\* from the i-th import on; "none" when no import has the type
TryImports(s, type_name, i) ==
    IF i > Len(imports[s]) THEN Found("none", "none")
    ELSE LET r == get_type(imports[s][i], type_name)
         IN  IF r = KeyError THEN TryImports(s, type_name, i + 1) ELSE r

\* Type.get_type(type_name)
get_type(s, type_name) ==
    IF HasNested(s, type_name) THEN Found("type", ToString(Nested(s, type_name)))
    ELSE LET r == TryImports(s, type_name, 1)
         IN  IF r.kind # "none" THEN r
             ELSE IF tparent[s] # 0 THEN get_type(tparent[s], type_name)
             ELSE get_primitive_type(type_name, Endianness(s))

Roots == {s \in Scopes : tparent[s] = 0}

\* the sequences without repetition, of at most n elements of S
RECURSIVE SeqsOf(_, _)
SeqsOf(S, n) ==
    IF n = 0 THEN {<<>>}
    ELSE SeqsOf(S, n - 1) \cup
         {Append(q, x) : q \in {q \in SeqsOf(S, n - 1) : Len(q) = n - 1}, x \in S}

NoRepeat(q) == \A i, j \in DOMAIN q : q[i] = q[j] => i = j

\* The schemas as Type.__init__ and load() leave them: scope 1 is a schema of DEFS, every
\* other scope is a schema of DEFS or a nested type of an earlier scope; the keys of one
\* types mapping differ. Every imported uid is in DEFS and the import graph has no cycle
\* (a scope imports schemas of a greater index).
InitT ==
    /\ tparent \in [Scopes -> 0..MaxScopes]
    /\ \A s \in Scopes : tparent[s] < s
    /\ tname \in [Scopes -> TypeNames \cup {"root"}]
    /\ \A s \in Scopes : (tparent[s] = 0) = (tname[s] = "root")
    /\ \A s, c \in Scopes : (s # c /\ tparent[s] = tparent[c] /\ tparent[s] # 0)
                               => tname[s] # tname[c]
    /\ endian \in [Scopes -> {"none", "be", "le"}]
    /\ imports \in [Scopes -> SeqsOf(Scopes, MaxImports)]
    /\ \A s \in Scopes : /\ NoRepeat(imports[s])
                         /\ \A i \in DOMAIN imports[s] :
                                imports[s][i] > s /\ tparent[imports[s][i]] = 0
    /\ lastLookup = [scope |-> 0, type_name |-> "none", res |-> Found("none", "none")]

\* scope.get_type(type_name), as Attribute.type calls it
Lookup ==
    /\ \E s \in Scopes, type_name \in TypeNames :
          lastLookup' = [scope |-> s, type_name |-> type_name,
                         res |-> get_type(s, type_name)]
    /\ UNCHANGED <<tparent, tname, endian, imports>>

\* no schema loaded, for the specifications that are not about them
IdleT ==
    /\ tparent = <<>>
    /\ tname = <<>>
    /\ endian = <<>>
    /\ imports = <<>>
    /\ lastLookup = [scope |-> 0, type_name |-> "none", res |-> Found("none", "none")]

(* ------------------------------------------------------------------ *)
(* Type.parse and Attribute.parse                                     *)
(* ------------------------------------------------------------------ *)
Bytes == {0, 1}

\* ByteMatch.contents of the attributes that have contents
Contents == <<1, 0>>

\* what an attribute parses: fixed contents (ByteMatch), the primitive u1
\* (IntegerTypes.U1), a nested type with an empty seq, or a Switch
Kinds == {"contents", "u1", "empty", "switch"}

\* Attribute.repeat
Repeats == {"norepeat", "eos", "expr", "until"}

\* what the switch-on expression of a Switch evaluates to
SwitchOn == 1

\* Attribute(raw_yaml, parent): repeat, what self.type is, and if_expr: "none" without
\* an `if`, else what the expression evaluates to. cases holds the values the case keys
\* of a Switch evaluate to, in declaration order; every case names the type u1.
Attributes ==
    [repeat : Repeats, kind : Kinds \ {"switch"}, if_expr : {"none", "false", "true"},
     cases : {<<>>}]
    \cup [repeat : Repeats, kind : {"switch"}, if_expr : {"none", "false", "true"},
          cases : {<<0>>, <<0, 1>>}]

\* the sequences of at most n elements of S
RECURSIVE UpTo(_, _)
UpTo(S, n) ==
    IF n = 0 THEN {<<>>}
    ELSE UpTo(S, n - 1) \cup
         {Append(q, x) : q \in {q \in UpTo(S, n - 1) : Len(q) = n - 1}, x \in S}

Frame(at, ai, tnode, anode, astart, istart, err) ==
    [at |-> at, ai |-> ai, tnode |-> tnode, anode |-> anode, astart |-> astart,
     istart |-> istart, err |-> err, reads |-> 0]

\* DEFS[typename].parse(KaitaiStream(BytesIO(bytes_like))) is about to be called
InitP ==
    /\ seq \in UpTo(Attributes, MaxAttrs)
    /\ data \in UpTo(Bytes, MaxData)
    /\ frame = Frame("start", 0, 0, 0, 0, -1, "none")

\* stream.is_eof()
is_eof == pos >= Len(data)

Parsed(res, node, p) == [res |-> res, node |-> node, pos |-> p]

\* stream.read_bytes(n) and the readers built on it: with fewer than n bytes left the
\* stream is read to its end and EOFError is raised
CanRead(n) == pos + n <= Len(data)

\* ByteMatch.parse without its assert
ByteMatch_NoAssert ==
    IF ~CanRead(Len(Contents)) THEN Parsed("EOFError", None, Len(data))
    ELSE Parsed("ok", Some(RawBytesInit(pos, Len(Contents))), pos + Len(Contents))

\* ByteMatch.parse(stream)
ByteMatch ==
    IF ~CanRead(Len(Contents)) THEN Parsed("EOFError", None, Len(data))
    ELSE IF SubSeq(data, pos + 1, pos + Len(Contents)) # Contents
    THEN Parsed("AssertionError", None, pos + Len(Contents))
    ELSE Parsed("ok", Some(RawBytesInit(pos, Len(Contents))), pos + Len(Contents))

\* self.type.parse(stream) of attribute a at the stream's position: the node returned
\* (None for Python's None) or the exception raised, and the position afterwards
TypeParse(a) ==
    CASE a.kind = "contents" -> ByteMatch
      [] a.kind = "u1" ->
            IF ~CanRead(1) THEN Parsed("EOFError", None, Len(data))
            ELSE Parsed("ok", Some(IntegerInit(pos, 1)), pos + 1)
      [] a.kind = "empty" -> Parsed("ok", Some(ASTInit), pos)
      [] a.kind = "switch" -> Parsed("ok", None, pos)

\* the children of the AST the running Attribute.parse is filling
Instances == nodes[frame.anode].children

\* Type.parse: ast = AST(self), before the loop over self.seq
ParseBegin ==
    /\ frame.at = "start"
    /\ nodes' = Append(nodes, ASTInit)
    /\ frame' = [frame EXCEPT !.at = "seq", !.ai = 1, !.tnode = Len(nodes) + 1]
    /\ UNCHANGED <<seq, data, pos, lastOp>>

\* Attribute.parse: ast = AST(self), before the branch on self.repeat
AttrBegin ==
    /\ frame.at = "seq"
    /\ frame.ai <= Len(seq)
    /\ nodes' = Append(nodes, ASTInit)
    /\ frame' = [frame EXCEPT !.at = "attr", !.anode = Len(nodes) + 1, !.astart = pos,
                              !.istart = -1]
    /\ UNCHANGED <<seq, data, pos, lastOp>>

\* the condition of the loop Attribute.parse runs for a.repeat, the values interpret()
\* may return being open; without repeat the body runs once
MayIterate(a) ==
    CASE a.repeat = "eos" -> ~is_eof
      [] a.repeat = "norepeat" -> Instances = <<>>
      [] OTHER -> TRUE
MayLeave(a) ==
    CASE a.repeat = "eos" -> is_eof
      [] a.repeat = "norepeat" -> Instances # <<>>
      [] OTHER -> TRUE

\* one run of ast.add_child(self.type.parse(stream))
AttrIterate ==
    /\ frame.at = "attr"
    /\ MayIterate(seq[frame.ai])
    /\ Len(Instances) < MaxInstances
    /\ LET r == TypeParse(seq[frame.ai])
       IN  /\ pos' = r.pos
           /\ IF r.res # "ok"
              THEN /\ frame' = [frame EXCEPT !.at = "raised", !.err = r.res, !.istart = pos]
                   /\ UNCHANGED nodes
              ELSE IF r.node = None
              THEN \* add_child(None): the append, then None.parent
                   /\ nodes' = [nodes EXCEPT ![frame.anode].children = Append(@, 0)]
                   /\ frame' = [frame EXCEPT !.at = "raised", !.err = "AttributeError",
                                             !.istart = pos]
              ELSE /\ nodes' = AddChildTo(Append(nodes, Val(r.node)), frame.anode,
                                          Len(nodes) + 1)
                   /\ frame' = [frame EXCEPT !.istart = pos]
    /\ UNCHANGED <<seq, data, lastOp>>

\* Attribute.parse returns its ast and Type.parse adds it: ast.add_child(attr.parse(stream))
AttrEnd ==
    /\ frame.at = "attr"
    /\ MayLeave(seq[frame.ai])
    /\ nodes' = AddChildTo(nodes, frame.tnode, frame.anode)
    /\ frame' = [frame EXCEPT !.at = "seq", !.ai = @ + 1]
    /\ UNCHANGED <<seq, data, pos, lastOp>>

\* Type.parse returns its ast
ParseEnd ==
    /\ frame.at = "seq"
    /\ frame.ai > Len(seq)
    /\ frame' = [frame EXCEPT !.at = "done"]
    /\ UNCHANGED <<seq, data, nodes, pos, lastOp>>

\* the caller of Type.parse reads node.offset or node.length on the tree it was handed
ReadParsed ==
    /\ frame.at = "done"
    /\ frame.reads < MaxReads
    /\ Offset \/ Length
    /\ frame' = [frame EXCEPT !.reads = @ + 1]
    /\ UNCHANGED <<seq, data>>

\* no parse, for the specifications that are not about it
IdleP ==
    /\ seq = <<>>
    /\ data = <<>>
    /\ frame = Frame("start", 0, 0, 0, 0, -1, "none")

(* ------------------------------------------------------------------ *)
(* assign_ids                                                         *)
(* ------------------------------------------------------------------ *)
\* the uid a dict may hold before assign_ids is called
OldUid == 9

\* The forests of n dicts: dict m is a root or a child of an earlier dict; roots and
\* children stand in the order of their creation. A dict may hold a uid already.
InitI ==
    \E n \in 0..MaxForest :
    \E up \in [1..n -> 0..n] :
    \E had \in SUBSET (1..n) :
        /\ \A m \in 1..n : up[m] < m
        /\ roots = SelectSeq([m \in 1..n |-> m], LAMBDA m : up[m] = 0)
        /\ kids = [p \in 1..n |-> SelectSeq([m \in 1..n |-> m], LAMBDA m : up[m] = p)]
        /\ uid = [m \in 1..n |-> IF m \in had THEN Some(OldUid) ELSE None]
        /\ stack = <<>>
        /\ counter = 0
        /\ visits = <<>>
        /\ idsAt = "start"

\* i = 0; stack = list(matches)
IdsBegin ==
    /\ idsAt = "start"
    /\ counter' = 0
    /\ stack' = roots
    /\ idsAt' = "loop"
    /\ UNCHANGED <<roots, kids, uid, visits>>

\* the loop body without i += 1
IdsVisit_NoIncrement ==
    /\ idsAt = "loop"
    /\ stack # <<>>
    /\ LET m == Last(stack)
       IN  /\ visits' = Append(visits, m)
           /\ IF uid[m] # None
              THEN /\ idsAt' = "AssertionError"
                   /\ stack' = SubSeq(stack, 1, Len(stack) - 1)
                   /\ UNCHANGED <<uid, counter>>
              ELSE /\ uid' = [uid EXCEPT ![m] = Some(counter)]
                   /\ UNCHANGED counter
                   /\ stack' = SubSeq(stack, 1, Len(stack) - 1) \o kids[m]
                   /\ UNCHANGED idsAt
    /\ UNCHANGED <<roots, kids>>

\* one run of the loop body: m = stack.pop(); assert 'uid' not in m; m['uid'] = i;
\* i += 1; stack += list(m['children'])
IdsVisit ==
    /\ idsAt = "loop"
    /\ stack # <<>>
    /\ LET m == Last(stack)
       IN  /\ visits' = Append(visits, m)
           /\ IF uid[m] # None
              THEN /\ idsAt' = "AssertionError"
                   /\ stack' = SubSeq(stack, 1, Len(stack) - 1)
                   /\ UNCHANGED <<uid, counter>>
              ELSE /\ uid' = [uid EXCEPT ![m] = Some(counter)]
                   /\ counter' = counter + 1
                   /\ stack' = SubSeq(stack, 1, Len(stack) - 1) \o kids[m]
                   /\ UNCHANGED idsAt
    /\ UNCHANGED <<roots, kids>>

\* while stack: is false; return matches
IdsEnd ==
    /\ idsAt = "loop"
    /\ stack = <<>>
    /\ idsAt' = "done"
    /\ UNCHANGED <<roots, kids, uid, stack, counter, visits>>

\* no forest, for the specifications that are not about assign_ids
IdleI ==
    /\ roots = <<>>
    /\ kids = <<>>
    /\ uid = <<>>
    /\ stack = <<>>
    /\ counter = 0
    /\ visits = <<>>
    /\ idsAt = "start"

(* ------------------------------------------------------------------ *)
(* The schema registry                                                *)
(* ------------------------------------------------------------------ *)
\* the uids a process may ask for
Uids == {"a", "b", "c"}

NoParse == [typename |-> "none", before |-> <<>>, loaded |-> FALSE, res |-> "none"]

\* DEFS = {} at import; KSY_DIR holds any of the schema files
InitR ==
    /\ ksy \in SUBSET Uids
    /\ Defs = [u \in {} |-> 0]
    /\ loads = 0
    /\ lastParse = NoParse

\* DEFS after load(): every file of KSY_DIR is compiled into a new Type object, which
\* is registered under its uid
Loaded(defs, n) == [u \in (DOMAIN defs) \cup ksy |-> IF u \in ksy THEN n ELSE defs[u]]

\* parse(typename, bytes_like): if typename not in DEFS: load()
\*                              return DEFS[typename].parse(...)
ParseUid(typename) ==
    LET run == typename \notin DOMAIN Defs
        defs == IF run THEN Loaded(Defs, loads + 1) ELSE Defs
    IN  /\ Defs' = defs
        /\ loads' = IF run THEN loads + 1 ELSE loads
        /\ lastParse' = [typename |-> typename, before |-> Defs, loaded |-> run,
                         res |-> IF typename \in DOMAIN defs THEN "parsed" ELSE "KeyError"]

\* a call of kaitai.parse
ParseCall ==
    /\ loads < MaxCalls
    /\ \E typename \in Uids : ParseUid(typename)
    /\ UNCHANGED ksy

\* load() called by itself, as under __main__
Load ==
    /\ loads < MaxCalls
    /\ Defs' = Loaded(Defs, loads + 1)
    /\ loads' = loads + 1
    /\ UNCHANGED <<ksy, lastParse>>

\* no registry, for the specifications that are not about it
IdleR ==
    /\ ksy = {}
    /\ Defs = [u \in {} |-> 0]
    /\ loads = 0
    /\ lastParse = NoParse

IdleO == IdleP /\ IdleI /\ IdleR

\* the nodes at rest, for the specifications that are not about them
IdleA ==
    /\ nodes = <<>>
    /\ pos = 0
    /\ lastOp = Op("init", 0, "ok", 0, FALSE, None)

\* one scan of Matcher.match()
Init == InitM /\ IdleA /\ IdleT /\ IdleO

Next ==
    \/ CallerStart /\ UNCHANGED <<varsA, varsT, varsO>>
    \/ CallerNext /\ UNCHANGED <<varsA, varsT, varsO>>
    \/ CallerClose /\ UNCHANGED <<varsA, varsT, varsO>>
    \/ EngineExhausted /\ UNCHANGED <<varsA, varsT, varsO>>
    \/ EngineResult /\ UNCHANGED <<varsA, varsT, varsO>>
    \/ Construct /\ UNCHANGED <<varsA, varsT, varsO>>
    \/ OpenSubmatch /\ UNCHANGED <<varsA, varsT, varsO>>
    \/ PeekFirst /\ UNCHANGED <<varsA, varsT, varsO>>
    \/ Rest /\ UNCHANGED <<varsA, varsT, varsO>>

Spec == Init /\ [][Next]_vars

\* a scan that has not begun, for the specifications that are not about it
IdleM ==
    /\ submatch = TRUE
    /\ CUSTOM_MATCHERS = {}
    /\ hasParent = FALSE
    /\ pc = "new"
    /\ matched_mimetypes = {}
    /\ log = <<>>
    /\ magic = 0
    /\ matches = <<>>
    /\ parentChildren = <<>>
    /\ calls = <<>>
    /\ out = <<>>
    /\ term = "running"
    /\ streams = <<>>

\* structural nodes
InitAST == InitA /\ IdleM /\ IdleT /\ IdleO

NextAST ==
    \/ Len(nodes) < MaxNodes /\ NewAST /\ UNCHANGED <<varsM, varsT, varsO>>
    \/ Len(nodes) < MaxNodes /\ NewRawBytes /\ UNCHANGED <<varsM, varsT, varsO>>
    \/ Len(nodes) < MaxNodes /\ NewInteger /\ UNCHANGED <<varsM, varsT, varsO>>
    \/ Adds(nodes, Len(nodes)) < MaxAdds /\ AddChild /\ UNCHANGED <<varsM, varsT, varsO>>
    \/ Offset /\ UNCHANGED <<varsM, varsT, varsO>>
    \/ Length /\ UNCHANGED <<varsM, varsT, varsO>>

SpecAST == InitAST /\ [][NextAST]_vars

\* structural nodes: the same operations on trees of at most CacheNodes nodes
NextCache ==
    \/ Len(nodes) < CacheNodes /\ NewAST /\ UNCHANGED <<varsM, varsT, varsO>>
    \/ Len(nodes) < CacheNodes /\ NewRawBytes /\ UNCHANGED <<varsM, varsT, varsO>>
    \/ Len(nodes) < CacheNodes /\ NewInteger /\ UNCHANGED <<varsM, varsT, varsO>>
    \/ Adds(nodes, Len(nodes)) < CacheAdds /\ AddChild /\ UNCHANGED <<varsM, varsT, varsO>>
    \/ Offset /\ UNCHANGED <<varsM, varsT, varsO>>
    \/ Length /\ UNCHANGED <<varsM, varsT, varsO>>

SpecCache == InitAST /\ [][NextCache]_vars

\* schema scopes
InitType == InitT /\ IdleM /\ IdleA /\ IdleO

NextType ==
    \/ Lookup /\ UNCHANGED <<varsM, varsA, varsO>>

SpecType == InitType /\ [][NextType]_vars

\* a parse of one schema on one stream, and reads of the tree it returned
InitParse == InitP /\ IdleA /\ IdleM /\ IdleT /\ IdleI /\ IdleR

NextParse ==
    \/ ParseBegin /\ UNCHANGED <<varsM, varsT, varsI, varsR>>
    \/ AttrBegin /\ UNCHANGED <<varsM, varsT, varsI, varsR>>
    \/ AttrIterate /\ UNCHANGED <<varsM, varsT, varsI, varsR>>
    \/ AttrEnd /\ UNCHANGED <<varsM, varsT, varsI, varsR>>
    \/ ParseEnd /\ UNCHANGED <<varsM, varsT, varsI, varsR>>
    \/ ReadParsed /\ UNCHANGED <<varsM, varsT, varsI, varsR>>

SpecParse == InitParse /\ [][NextParse]_vars

\* one call of assign_ids; the loop goes on while it can
InitIds == InitI /\ IdleA /\ IdleM /\ IdleT /\ IdleP /\ IdleR

NextIds ==
    \/ IdsBegin /\ UNCHANGED <<varsM, varsA, varsT, varsP, varsR>>
    \/ IdsVisit /\ UNCHANGED <<varsM, varsA, varsT, varsP, varsR>>
    \/ IdsEnd /\ UNCHANGED <<varsM, varsA, varsT, varsP, varsR>>

SpecIds == InitIds /\ [][NextIds]_vars /\ WF_vars(NextIds)

\* a parse of a schema whose attributes have no `if` and no Switch: fixed contents,
\* integers and nested types under every repeat policy
InitContents ==
    /\ seq \in UpTo({a \in Attributes : a.if_expr = "none" /\ a.kind # "switch"}, MaxAttrs)
    /\ data \in UpTo(Bytes, MaxData)
    /\ frame = Frame("start", 0, 0, 0, 0, -1, "none")
    /\ IdleA /\ IdleM /\ IdleT /\ IdleI /\ IdleR

NextContents ==
    \/ ParseBegin /\ UNCHANGED <<varsM, varsT, varsI, varsR>>
    \/ AttrBegin /\ UNCHANGED <<varsM, varsT, varsI, varsR>>
    \/ AttrIterate /\ UNCHANGED <<varsM, varsT, varsI, varsR>>
    \/ AttrEnd /\ UNCHANGED <<varsM, varsT, varsI, varsR>>
    \/ ParseEnd /\ UNCHANGED <<varsM, varsT, varsI, varsR>>

SpecContents == InitContents /\ [][NextContents]_vars

\* the registry over the calls of one process
InitRegistry == InitR /\ IdleA /\ IdleM /\ IdleT /\ IdleP /\ IdleI

NextRegistry ==
    \/ ParseCall /\ UNCHANGED <<varsM, varsA, varsT, varsP, varsI>>
    \/ Load /\ UNCHANGED <<varsM, varsA, varsT, varsP, varsI>>

SpecRegistry == InitRegistry /\ [][NextRegistry]_vars

\* structural nodes put together as the parser does, read at any time
NextTree ==
    \/ Len(nodes) < TreeNodes /\ NewAST /\ UNCHANGED <<varsM, varsT, varsO>>
    \/ Len(nodes) < TreeNodes /\ NewRawBytes /\ UNCHANGED <<varsM, varsT, varsO>>
    \/ Adds(nodes, Len(nodes)) < TreeAdds /\ AddParsedChild /\ UNCHANGED <<varsM, varsT, varsO>>
    \/ Offset /\ UNCHANGED <<varsM, varsT, varsO>>
    \/ Length /\ UNCHANGED <<varsM, varsT, varsO>>

SpecTree == InitAST /\ [][NextTree]_vars

\* trees of Match objects
NextMatchTree ==
    \/ Len(nodes) < MaxNodes /\ NewMatch /\ UNCHANGED <<varsM, varsT, varsO>>
    \/ Offset /\ UNCHANGED <<varsM, varsT, varsO>>
    \/ Length /\ UNCHANGED <<varsM, varsT, varsO>>

SpecMatchTree == InitAST /\ [][NextMatchTree]_vars

(* ------------------------------------------------------------------ *)
(* Properties of the match-tree builder                               *)
(* ------------------------------------------------------------------ *)
RECURSIVE Concat(_, _)
\* what the first n handle_mimetype calls delivered, in order
Concat(cs, n) == IF n = 0 THEN <<>> ELSE Concat(cs, n - 1) \o cs[n].delivered

\* the submatcher of call c raised InvalidMatch while its first element was produced
FirstInvalid(c) ==
    c.kind = "custom" /\ c.signal = "InvalidMatch" /\ c.at = "next" /\ c.produced = <<>>

\* the submatcher of call c raised InvalidMatch after it had produced n >= 1 elements
LaterInvalid(c) ==
    c.kind = "custom" /\ c.signal = "InvalidMatch" /\ c.at = "next" /\ Len(c.produced) >= 1

\* C1: when producing the first element of the submatcher's sequence raises InvalidMatch,
\* handle_mimetype delivers nothing (neither the candidate nor an element of the
\* submatcher reaches the caller) and it ends normally.
C1_FirstInvalidYieldsNothing ==
    \A i \in DOMAIN calls :
        FirstInvalid(calls[i]) =>
            /\ calls[i].delivered = <<>>
            /\ calls[i].status = "returned"
            /\ calls[i].cand \notin Range(out)
            /\ \A k \in Range(matches[calls[i].cand].children) : k \notin Range(out)
            /\ out = Concat(calls, Len(calls))

C1_Witness ==
    /\ term = "stop"
    /\ \E i \in DOMAIN calls : FirstInvalid(calls[i]) /\ calls[i].cand \in DOMAIN matches

\* C2: when the submatcher produces n >= 1 elements and raises InvalidMatch while
\* producing element n + 1, the caller has received the candidate, then those n elements
\* in production order, and nothing more from this call, which ends normally.
C2_LaterInvalidKeepsDelivered ==
    \A i \in DOMAIN calls :
        LaterInvalid(calls[i]) =>
            /\ calls[i].delivered = <<calls[i].cand>> \o calls[i].produced
            /\ calls[i].status = "returned"
            /\ out = Concat(calls, Len(calls))

C2_Witness ==
    /\ term = "stop"
    /\ \E i \in DOMAIN calls : LaterInvalid(calls[i]) /\ Len(calls[i].produced) = 2

\* C3: no InvalidMatch signalled by a submatcher (in its constructor, in the call of
\* submatch or while an element is produced) leaves match(): the call that received it
\* returns and the scan goes on.
C3_InvalidMatchNeverEscapes ==
    /\ term # "InvalidMatch"
    /\ \A i \in DOMAIN calls :
           calls[i].signal = "InvalidMatch" => calls[i].status # "raised"

\* C4: with a parent given, after the scan every Match in parent.children was yielded to
\* the caller; a candidate discarded on its first element is not among them.
C4_ParentHoldsOnlyYielded ==
    (hasParent /\ term = "stop") =>
        \A k \in Range(parentChildren) : k \in Range(out)

\* the candidates handle_mimetype created in this scan and yielded
TopLevel == {calls[i].cand : i \in {j \in DOMAIN calls : calls[j].cand \in Range(out)}}

\* C5: no two candidates yielded at the top level of one scan carry the same mimetype,
\* whatever the pattern engine's results are; a result without a mime template starts no
\* candidate.
C5_NoDuplicateMimetype ==
    /\ \A a, b \in TopLevel : matches[a].name = matches[b].name => a = b
    /\ \A i, j \in DOMAIN calls : calls[i].mime = calls[j].mime => i = j
    /\ \A i \in DOMAIN calls : calls[i].mime \in Mimes

C5_Witness ==
    /\ term = "stop"
    /\ \E i, j \in DOMAIN log :
          /\ i < j
          /\ log[i][2] = log[j][2]
          /\ log[i][1] # log[j][1]
          /\ \E a \in TopLevel : matches[a].name = log[i][2]
    /\ \E i \in DOMAIN log : log[i][2] = NoMime

\* C6: every FileStream entered by match() or handle_mimetype is released exactly once:
\* never twice, not before its block is left, and always once the handle_mimetype call
\* that entered it is over and once the sequence has ended, however it ended.
C6_StreamsReleasedOnce ==
    /\ \A s \in DOMAIN streams : streams[s].rel <= 1
    /\ term # "running" => \A s \in DOMAIN streams : streams[s].rel = 1
    /\ term = "running" /\ pc # "new" => streams[MAIN].rel = 0
    /\ \A i \in DOMAIN calls :
          calls[i].stream # 0 =>
              streams[calls[i].stream].rel = IF calls[i].status = "active" THEN 0 ELSE 1

C6_Witness ==
    /\ term = "closed"
    /\ Len(streams) = 3
    /\ \E i \in DOMAIN calls : FirstInvalid(calls[i])
    /\ Cur.status = "closed"
    /\ Cur.stream = 3

(* ------------------------------------------------------------------ *)
(* Properties of the structural nodes                                 *)
(* ------------------------------------------------------------------ *)
\* how often node c stands in the children lists of all nodes
Occurrences(c) ==
    Cardinality({pi \in (DOMAIN nodes) \X (1..(Len(nodes) * Len(nodes) + 1)) :
                    /\ pi[2] <= Len(nodes[pi[1]].children)
                    /\ nodes[pi[1]].children[pi[2]] = c})

\* C7: after any sequence of add_child calls every node stands in the children list of
\* at most one node, at most once, and that node is its parent; an add_child of a child
\* that has a parent fails.
C7_AtMostOneParent ==
    /\ \A c \in DOMAIN nodes : Occurrences(c) <= 1
    /\ \A p, c \in DOMAIN nodes :
           c \in Range(nodes[p].children) => nodes[c].parent = p

\* C8: a read of length on a node whose length was not set explicitly returns
\* lastChild.offset + lastChild.length - self.offset when the node has children and 0
\* when it has none.
C8_DerivedLength ==
    (lastOp.op = "length" /\ ~nodes[lastOp.node].explicit) =>
        LET n == lastOp.node
            ch == nodes[n].children
        IN  /\ lastOp.res = "ok"
            /\ lastOp.v = IF ch = <<>> THEN 0
                          ELSE ReadOffset(nodes, Last(ch), Fuel).v
                               + ReadLength(nodes, Last(ch), Fuel).v
                               - ReadOffset(nodes, n, Fuel).v

\* C9: the first read of a node's offset or length after an add_child on that node
\* returns the value computed from the node's children as they are now: the first
\* child's offset, and the last child's offset plus its length minus the node's offset.
C9_FirstReadRecomputes ==
    (lastOp.op \in {"offset", "length"} /\ lastOp.first /\ lastOp.res = "ok") =>
        LET n == lastOp.node
            ch == nodes[n].children
        IN  IF lastOp.op = "offset"
            THEN nodes[ch[1]].off = Some(lastOp.v)
            ELSE /\ nodes[Last(ch)].off # None
                 /\ nodes[Last(ch)].len # None
                 /\ nodes[n].off # None
                 /\ lastOp.v = Val(nodes[Last(ch)].off) + Val(nodes[Last(ch)].len)
                                - Val(nodes[n].off)

\* a length was cached, a child was appended, and the next read returned another value
C9_Witness ==
    /\ lastOp.op = "length"
    /\ ~nodes[lastOp.node].explicit
    /\ lastOp.first
    /\ lastOp.res = "ok"
    /\ lastOp.old # None
    /\ Val(lastOp.old) # lastOp.v

(* ------------------------------------------------------------------ *)
(* Properties of type resolution                                      *)
(* ------------------------------------------------------------------ *)
RECURSIVE Chain(_)
\* a scope and its ancestors
Chain(s) == IF tparent[s] = 0 THEN {s} ELSE {s} \cup Chain(tparent[s])

\* C10: get_type returns the scope's own nested type of that name when it has one; it
\* returns a primitive type only when no scope of the ancestor chain has a nested type
\* of that name; and it fails with an unknown-type error only when the name is no
\* primitive's.
C10_ResolutionOrder ==
    lastLookup.scope # 0 =>
        LET s == lastLookup.scope
            type_name == lastLookup.type_name
            r == lastLookup.res
        IN  /\ HasNested(s, type_name) => r = Found("type", ToString(Nested(s, type_name)))
            /\ r.kind = "primitive" => \A a \in Chain(s) : ~HasNested(a, type_name)
            /\ r = KeyError => type_name \notin PRIMITIVE_TYPES_BY_NAME

\* C11: a bare primitive name (u4) requested from a scope resolves to the primitive whose
\* suffix is the inherited endianness of the requesting scope; it is found whenever
\* that endianness is set and no user type of the name is in reach.
C11_RequestingScopeEndianness ==
    (lastLookup.scope # 0 /\ lastLookup.type_name = "u4") =>
        LET s == lastLookup.scope
            r == lastLookup.res
        IN  /\ r.kind = "primitive" => r.v = Plus("u4", Endianness(s))
            /\ (r = KeyError /\ \A i \in Scopes : imports[i] = <<>>) => Endianness(s) = "none"

(* ------------------------------------------------------------------ *)
(* Properties of schema parsing                                       *)
(* ------------------------------------------------------------------ *)
\* C12: an attribute whose `if` condition is false consumes no bytes and gets no node:
\* while it is parsed the stream stays where it was, and the node of the type has one
\* child for every attribute parsed so far whose condition is not false, and no other.
C12_FalseConditionSkips ==
    /\ (frame.at \in {"attr", "raised"} /\ seq[frame.ai].if_expr = "false")
           => pos = frame.astart
    /\ frame.at \in {"seq", "done"}
           => Len(nodes[frame.tnode].children)
                  = Cardinality({i \in 1..(frame.ai - 1) : seq[i].if_expr # "false"})

\* the bytes the node c was read from
BytesOf(c) == SubSeq(data, Val(nodes[c].off) + 1, Val(nodes[c].off) + Val(nodes[c].len))

\* C13: a fixed-contents attribute reads exactly len(contents) bytes; when they differ
\* from contents the parse ends with an error, and the caller is handed a tree only if
\* every node read for a fixed-contents attribute holds exactly the contents.
C13_ContentsMismatchAborts ==
    /\ (/\ frame.at \in {"attr", "raised"}
        /\ seq[frame.ai].kind = "contents"
        /\ frame.istart >= 0
        /\ frame.istart + Len(Contents) <= Len(data))
           => /\ pos = frame.istart + Len(Contents)
              /\ SubSeq(data, frame.istart + 1, pos) # Contents
                     => frame.at = "raised" /\ frame.err = "AssertionError"
    /\ frame.at = "done"
           => \A i \in 1..Len(seq) :
                  seq[i].kind = "contents"
                      => \A j \in DOMAIN nodes[nodes[frame.tnode].children[i]].children :
                             BytesOf(nodes[nodes[frame.tnode].children[i]].children[j])
                                 = Contents

\* the contents of the second attribute did not match after the first attribute's node
\* was added to the type's node
C13_Witness ==
    /\ frame.at = "raised"
    /\ frame.err = "AssertionError"
    /\ frame.ai = 2
    /\ Len(nodes[frame.tnode].children) = 1
    /\ SubSeq(data, frame.istart + 1, pos) # Contents

\* C14: parsing an attribute whose type is a Switch returns the node parsed by the type
\* of the first case equal to the switch-on value (u1: an Integer read where the stream
\* stood), and ends in an unknown-type error when no case is equal to it.
C14_SwitchDelegates ==
    (/\ frame.at \in {"attr", "raised"}
     /\ seq[frame.ai].kind = "switch"
     /\ frame.istart >= 0)
        => IF \E k \in DOMAIN seq[frame.ai].cases : seq[frame.ai].cases[k] = SwitchOn
           THEN frame.istart < Len(data)
                    => /\ frame.at = "attr"
                       /\ Instances # <<>>
                       /\ Last(Instances) # 0
                       /\ nodes[Last(Instances)].off = Some(frame.istart)
                       /\ pos = frame.istart + 1
           ELSE frame.at = "raised" /\ frame.err = "UnknownType"

(* ------------------------------------------------------------------ *)
(* Properties of assign_ids                                           *)
(* ------------------------------------------------------------------ *)
\* the dicts that held a uid when assign_ids was called
HadUid == {m \in DOMAIN uid : uid[m] = Some(OldUid)}

IdsGiven == {m \in DOMAIN uid : uid[m] # None /\ m \notin HadUid}

IdsSafe ==
    \* no dict is visited twice
    /\ \A j, k \in DOMAIN visits : visits[j] = visits[k] => j = k
    \* the k-th dict visited gets the id k - 1, unless it had one, which ends the call
    /\ \A k \in DOMAIN visits :
           IF visits[k] \in HadUid
           THEN k = Len(visits) /\ idsAt = "AssertionError"
           ELSE uid[visits[k]] = Some(k - 1)
    /\ idsAt = "AssertionError" => visits # <<>> /\ Last(visits) \in HadUid
    \* at the return every dict was visited and the ids are 0..N-1
    /\ idsAt = "done" => /\ Range(visits) = DOMAIN uid
                         /\ {Val(uid[m]) : m \in DOMAIN uid} = 0..(Len(uid) - 1)
                         /\ \A m, n \in DOMAIN uid : uid[m] = uid[n] => m = n

\* C15: assign_ids over a forest visits every dict once, gives the k-th dict visited the
\* id k - 1, so that the ids are 0..N-1 and no two dicts share one, fails when it meets
\* a dict that has a uid, and comes to an end.
C15_AssignIds == []IdsSafe /\ <>(idsAt \in {"done", "AssertionError"})

\* a forest with a dict that has two children, one of them with a child, was numbered
C15_Witness ==
    /\ idsAt = "done"
    /\ \E m \in DOMAIN kids : Len(kids[m]) = 2 /\ \E c \in Range(kids[m]) : kids[c] # <<>>

(* ------------------------------------------------------------------ *)
(* Properties of the schema registry                                  *)
(* ------------------------------------------------------------------ *)
\* C16: a call of parse runs the loader only when the registry is empty, and a call made
\* with a populated registry leaves every registered Type in place.
C16_PopulatedOnce ==
    lastParse.typename # "none" =>
        /\ lastParse.loaded => DOMAIN lastParse.before = {}
        /\ DOMAIN lastParse.before # {}
               => \A u \in DOMAIN lastParse.before : Defs[u] = lastParse.before[u]

(* ------------------------------------------------------------------ *)
(* Laziness of the scan                                               *)
(* ------------------------------------------------------------------ *)
\* the generator is suspended at a yield, or was closed at one
Suspended ==
    \/ pc \in {"yieldedLeaf", "yieldedM", "yieldedSub"}
    \/ term = "closed" /\ calls # <<>>

\* C17: whenever the caller holds k delivered elements and the generator waits (or was
\* closed), the pattern engine has produced no result after the one the last element
\* came from, and the submatcher has produced no element that was not delivered, but
\* for the first one, which is produced to decide on the candidate before it is yielded.
C17_NoWorkAhead ==
    /\ (term = "closed" /\ calls = <<>>) => log = <<>> /\ matches = <<>>
    /\ Suspended =>
           /\ log # <<>>
           /\ Last(log) = <<magic, Cur.mime>>
           /\ out # <<>>
           /\ Cur.delivered # <<>>
           /\ Last(out) = Last(Cur.delivered)
           /\ IF Len(Cur.delivered) = 1
              THEN Len(Cur.produced) <= 1
              ELSE Cur.delivered = <<Cur.cand>> \o Cur.produced
           /\ \A j \in 1..(Len(calls) - 1) : calls[j].status = "returned"

\* the caller closed the sequence with the candidate in hand, the submatcher's first
\* element produced and the pattern engine not asked again
C17_Witness ==
    /\ term = "closed"
    /\ calls # <<>>
    /\ Cur.kind = "custom"
    /\ Cur.delivered = <<Cur.cand>>
    /\ Len(Cur.produced) = 1
    /\ Len(calls) = 2
    /\ Len(log) < MaxResults

(* ------------------------------------------------------------------ *)
(* Cache coherence and termination of offset and length               *)
(* ------------------------------------------------------------------ *)
\* the nodes with nothing cached: only the values the constructors set are kept
Uncached(ns) ==
    [n \in DOMAIN ns |-> IF ns[n].explicit THEN ns[n]
                         ELSE [ns[n] EXCEPT !.off = None, !.len = None]]

\* C18: a read of offset or length returns what a computation from the tree as it is
\* now, with nothing cached, returns.
C18_CacheCoherence ==
    (lastOp.op \in {"offset", "length"} /\ lastOp.res = "ok") =>
        LET fresh == IF lastOp.op = "offset"
                     THEN ReadOffset(Uncached(nodes), lastOp.node, Fuel)
                     ELSE ReadLength(Uncached(nodes), lastOp.node, Fuel)
        IN  fresh.res = "ok" => fresh.v = lastOp.v

\* C19: on the tree a parse returned, every read of offset or length ends with a value.
C19_ReadsTerminate ==
    (frame.at = "done" /\ lastOp.op \in {"offset", "length"}) => lastOp.res = "ok"

\* C20: every run of the body of an until-eos loop that returns to the loop's test has
\* advanced the stream, so that the loop ends on a finite stream; with the stream at its
\* end when the attribute is parsed, no instance is parsed.
C20_EosLoopAdvances ==
    (frame.at = "attr" /\ seq[frame.ai].repeat = "eos") =>
        /\ frame.istart >= 0 => pos > frame.istart
        /\ frame.astart >= Len(data) => Instances = <<>>

\* the candidate of call c was discarded because its submatcher signalled InvalidMatch,
\* in the call of submatch or while its first element was produced
Discarded(c) ==
    /\ c.kind = "custom"
    /\ c.signal = "InvalidMatch"
    /\ c.at \in {"call", "next"}
    /\ c.produced = <<>>

\* the results of the scan so far that resolve to mimetype m
ResolvingTo(m) == {i \in DOMAIN log : log[i][2] = m}

\* C21: a mimetype is marked as seen before its candidate is probed (from the moment the
\* handle_mimetype call for it exists), and when the candidate of the first result
\* resolving to M is discarded on InvalidMatch, every later result of the scan resolving
\* to M is skipped: no other call is made for M and no Match for M reaches the caller.
C21_DiscardedMimetypeStaysSeen ==
    /\ \A i \in DOMAIN calls : calls[i].mime \in matched_mimetypes
    /\ \A i \in DOMAIN calls :
          Discarded(calls[i]) =>
              /\ calls[i].delivered = <<>>
              /\ \A j \in DOMAIN calls : calls[j].mime = calls[i].mime => j = i
              /\ \A k \in Range(out) : matches[k].name # calls[i].mime

C21_Witness ==
    /\ term = "stop"
    /\ \E i \in DOMAIN calls :
          /\ Discarded(calls[i])
          /\ Cardinality(ResolvingTo(calls[i].mime)) >= 2

\* the submatcher of call c ended normally without an element: the first next() raised
\* StopIteration
EmptySubmatch(c) ==
    c.kind = "custom" /\ c.signal = "StopIteration" /\ c.produced = <<>>

\* the elements delivered to the caller that belong to Match k: k and what hangs below it
RECURSIVE Below(_, _)
Below(k, fuel) ==
    IF fuel = 0 THEN {k}
    ELSE {k} \cup UNION {Below(ch, fuel - 1) : ch \in Range(matches[k].children)}

\* C22: when the sequence of a registered submatcher ends normally without an element,
\* handle_mimetype yields the candidate, this is the only element the caller receives
\* from the call, and the call ends at the caller's next request.
C22_EmptySubmatchCommits ==
    \A i \in DOMAIN calls :
        EmptySubmatch(calls[i]) =>
            /\ calls[i].cand \in DOMAIN matches
            /\ matches[calls[i].cand].name = calls[i].mime
            /\ calls[i].delivered = <<calls[i].cand>>
            /\ Range(out) \cap Below(calls[i].cand, Len(matches)) = {calls[i].cand}
            /\ out = Concat(calls, Len(calls))
            /\ ~calls[i].has_first
            /\ calls[i].status \in {"active", "returned", "closed"}
            /\ calls[i].status = "active" => (i = Len(calls) /\ pc = "yieldedM")

C22_Witness ==
    /\ term = "stop"
    /\ \E i \in DOMAIN calls :
          /\ EmptySubmatch(calls[i])
          /\ calls[i].status = "returned"
          /\ Len(out) >= 2

====
